---- MODULE Spec2Model ----
\* Model of bitbucket-repo-cleaner.py: the menu loop, its nine handlers, the
\* protected-branch file reader, the snapshot writer and the deletion loop.
\* Strings are sequences of one-character strings, so that strip(), line
\* splitting and file-name formatting are computed rather than assumed.
\* An unset global (Python None) is <<>>; a set one is the 1-tuple <<s>>.
EXTENDS Integers, Sequences, FiniteSets, TLC

VARIABLES
    pc,                    \* "start" | "prompt" | "deleting" | "exited" | "crashed"
    PROJECT_KEY,
    REPOSITORY_SLUG,
    FILENAME,
    fs,                    \* the file system: name -> [kind, data]
    remote,                \* branch records of repository P/r, in service order
    today,                 \* the date datetime.now() returns
    preference,            \* the line read by the last menu prompt, if it read one
    invoked,               \* handlers the menu called for that line
    error,                 \* the call whose exception reached the outer handler
    not_allowed_branches,  \* last value returned by load_not_allowed_branches
    branches,              \* last value returned by get_branches
    i,                     \* position of the deletion loop in branches
    requests,              \* delete requests issued for the last preference
    prior                  \* what the snapshot file held when save_branches began

vars == <<pc, PROJECT_KEY, REPOSITORY_SLUG, FILENAME, fs, remote, today,
          preference, invoked, error, not_allowed_branches, branches, i,
          requests, prior>>

\* ---------------------------------------------------------------- bounds
MaxBranches == 2
LastDay == 10

\* ------------------------------------------------------------ Python bits
None == <<>>
Some(s) == <<s>>

\* the characters of the Unicode spaces beyond Latin-1, which a module cannot
\* hold, written as their escapes
UnicodeSpaces ==
    {"\\u1680", "\\u2000", "\\u2001", "\\u2002", "\\u2003", "\\u2004", "\\u2005",
     "\\u2006", "\\u2007", "\\u2008", "\\u2009", "\\u200a", "\\u2028", "\\u2029",
     "\\u202f", "\\u205f", "\\u3000"}

\* the characters str.isspace() holds of: tab, line feed, vertical tab, form
\* feed, carriage return, U+001C..U+001F, space, U+0085, U+00A0, and the rest
Whitespace ==
    {"\t", "\n", "", "\f", "\r", "", "", "", "", " ", "", " "}
        \cup UnicodeSpaces

RECURSIVE lstrip(_)
lstrip(s) ==
    IF s = <<>> THEN <<>>
    ELSE IF Head(s) \in Whitespace THEN lstrip(Tail(s)) ELSE s

RECURSIVE rstrip(_)
rstrip(s) ==
    IF s = <<>> THEN <<>>
    ELSE IF s[Len(s)] \in Whitespace THEN rstrip(SubSeq(s, 1, Len(s) - 1)) ELSE s

\* str.strip()
strip(s) == rstrip(lstrip(s))

\* str(x) as an f-string renders it
Str(v) == IF v = None THEN <<"N", "o", "n", "e">> ELSE v[1]

Digits == <<"0", "1", "2", "3", "4", "5", "6", "7", "8", "9">>
Digit(n) == Digits[n + 1]
Pad2(n) == <<Digit((n \div 10) % 10), Digit(n % 10)>>
Pad4(n) == <<Digit((n \div 1000) % 10), Digit((n \div 100) % 10)>> \o Pad2(n)

\* datetime.strftime("%Y-%m-%d")
strftime(d) == Pad4(d.year) \o <<"-">> \o Pad2(d.month) \o <<"-">> \o Pad2(d.day)

\* iteration over a file opened in text mode (universal newlines): "\n", "\r"
\* and "\r\n" each end a line and are read as "\n"; lines keep that terminator,
\* the last line may lack one
RECURSIVE FileLines(_, _)
FileLines(data, cur) ==
    IF data = <<>> THEN (IF cur = <<>> THEN <<>> ELSE <<cur>>)
    ELSE IF Head(data) = "\r" /\ Len(data) > 1 /\ data[2] = "\n"
         THEN FileLines(Tail(data), cur)
    ELSE IF Head(data) \in {"\n", "\r"}
         THEN <<cur \o <<"\n">>>> \o FileLines(Tail(data), <<>>)
         ELSE FileLines(Tail(data), cur \o <<Head(data)>>)

File(data) == [kind |-> "file", data |-> data]
Dir == [kind |-> "dir", data |-> <<>>]
\* a file whose bytes are not valid UTF-8
Undecodable == [kind |-> "undecodable", data |-> <<>>]

\* open(name, "r", encoding="utf-8") and the reading of the file: the
\* exception raised, or "" and the content
open_r(f, name) ==
    IF name = None THEN [exc |-> "TypeError", data |-> <<>>]
    ELSE IF name[1] \notin DOMAIN f THEN [exc |-> "FileNotFoundError", data |-> <<>>]
    ELSE IF f[name[1]].kind = "dir" THEN [exc |-> "IsADirectoryError", data |-> <<>>]
    ELSE IF f[name[1]].kind = "undecodable"
         THEN [exc |-> "UnicodeDecodeError", data |-> <<>>]
    ELSE [exc |-> "", data |-> f[name[1]].data]

open_a(f, name) == IF name \in DOMAIN f THEN f ELSE (name :> File(<<>>)) @@ f

\* open(name, "w"): creates or truncates
open_w(f, name) == (name :> File(<<>>)) @@ f

\* f.write(text)
write(f, name, text) == (name :> File(f[name].data \o text)) @@ f

\* ------------------------------------------------------------ environment
BranchNames == {<<"a">>, <<"b">>, <<"m">>}
Branch(n, d) == [displayId |-> n, isDefault |-> d]
Records == {Branch(n, d) : n \in BranchNames, d \in BOOLEAN}

SeqsUpTo(S, n) == UNION {[1..k -> S] : k \in 0..n}

\* listings the service can hold: distinct names, at most one default branch
Listings ==
    {l \in SeqsUpTo(Records, MaxBranches) :
        /\ \A j, k \in DOMAIN l : j # k => l[j].displayId # l[k].displayId
        /\ Cardinality({j \in DOMAIN l : l[j].isDefault}) <= 1}

KnownProject == <<"P">>
KnownSlug == <<"r">>

KeepFile == <<"k">>
MissingFile == <<"x">>
DirName == <<"d">>
UndecodableFile == <<"u">>
\* the protected-branch file: a blank line ended by a carriage return, a name
\* padded with a form feed and a no-break space, an unterminated name
KeepData == <<"\r", "\f", "m", " ", "\r", "\n", "a">>

FirstDay == [year |-> 2024, month |-> 1, day |-> 9]

MenuInputs ==
    {<<"0">>, <<"1">>, <<"2">>, <<"3">>, <<"4">>, <<"5">>, <<"6">>, <<"7">>,
     <<"8">>, <<" ", "8", " ">>, <<"\f", "8">>, <<"9">>, <<"q">>, <<>>}
FilenameInputs == {KeepFile, <<" ", "k", " ">>, MissingFile, DirName, UndecodableFile}
ProjectInputs == {KnownProject, <<" ", "P">>, <<>>}
SlugInputs == {KnownSlug, <<"r", " ">>}

\* ---------------------------------------------------------------- program
load_not_allowed_branches_fnf(f, name) ==
    LET r == open_r(f, name) IN
    IF r.exc = "FileNotFoundError"
    THEN [raised |-> TRUE, lines |-> <<>>]
    ELSE [raised |-> FALSE,
          lines |-> IF r.exc # "" THEN <<>>
                    ELSE LET L == FileLines(r.data, <<>>) IN
                         [k \in 1..Len(L) |-> strip(L[k])]]

load_not_allowed_branches_narrow(f, name) ==
    LET r == open_r(f, name) IN
    IF r.exc \notin {"", "FileNotFoundError"}
    THEN [raised |-> TRUE, lines |-> <<>>]
    ELSE [raised |-> FALSE,
          lines |-> IF r.exc # "" THEN <<>>
                    ELSE LET L == FileLines(r.data, <<>>) IN
                         [k \in 1..Len(L) |-> strip(L[k])]]

load_not_allowed_branches(f, name) ==
    LET r == open_r(f, name) IN
    [raised |-> FALSE,
     lines |-> IF r.exc # "" THEN <<>>
               ELSE LET L == FileLines(r.data, <<>>) IN
                    [k \in 1..Len(L) |-> strip(L[k])]]

\* BITBUCKET_WRAPPER.project(PROJECT_KEY)
project(key, fault) == [raised |-> fault \/ key # Some(KnownProject)]

\* BITBUCKET_WRAPPER.get_repo(PROJECT_KEY, REPOSITORY_SLUG)
get_repo(key, slug, fault) ==
    [raised |-> fault \/ key # Some(KnownProject) \/ slug # Some(KnownSlug)]

get_branches(r, key, slug, fault) ==
    IF fault \/ key # Some(KnownProject) \/ slug # Some(KnownSlug)
    THEN [raised |-> TRUE, list |-> <<>>]
    ELSE [raised |-> FALSE, list |-> r]

\* the service after a successful delete of branch n
delete_branch(r, n) == SelectSeq(r, LAMBDA b : b.displayId # n)

InSeq(x, s) == \E k \in DOMAIN s : s[k] = x

ShouldDelete_no_default_check(branch, not_allowed) ==
    ~InSeq(branch.displayId, not_allowed)

\* the two `continue` tests of the deletion loop
ShouldDelete(branch, not_allowed) ==
    /\ ~InSeq(branch.displayId, not_allowed)
    /\ ~branch.isDefault

\* f"branches-{REPOSITORY_SLUG}-{date_str}.txt"
snapshot_filename(slug, d) ==
    <<"b", "r", "a", "n", "c", "h", "e", "s", "-">> \o Str(slug) \o <<"-">>
        \o strftime(d) \o <<".", "t", "x", "t">>

RECURSIVE write_all(_, _, _)
write_all(f, name, list) ==
    IF list = <<>> THEN f
    ELSE write_all(write(f, name, Head(list).displayId \o <<"\n">>), name, Tail(list))

save_branches_list_first(f, name, res) ==
    IF res.raised THEN f ELSE write_all(open_w(f, name), name, res.list)

\* the file system after save_branches, given what get_branches did
save_branches(f, name, res) ==
    IF res.raised THEN open_w(f, name) ELSE write_all(open_w(f, name), name, res.list)

MenuChain_7_deletes(s) ==
    IF s = <<"0">> THEN "set_not_allowed_branches_file"
    ELSE IF s = <<"1">> THEN "set_project_key"
    ELSE IF s = <<"2">> THEN "set_repository_slug"
    ELSE IF s = <<"3">> THEN "get_project_details"
    ELSE IF s = <<"4">> THEN "get_repository_details"
    ELSE IF s = <<"5">> THEN "get_branches"
    ELSE IF s = <<"6">> THEN "save_branches"
    ELSE IF s = <<"7">> THEN "delete_branches"
    ELSE IF s = <<"8">> THEN "delete_branches"
    ELSE "break"

\* the if/elif chain of the menu loop, on the trimmed line
MenuChain(s) ==
    IF s = <<"0">> THEN "set_not_allowed_branches_file"
    ELSE IF s = <<"1">> THEN "set_project_key"
    ELSE IF s = <<"2">> THEN "set_repository_slug"
    ELSE IF s = <<"3">> THEN "get_project_details"
    ELSE IF s = <<"4">> THEN "get_repository_details"
    ELSE IF s = <<"5">> THEN "get_branches"
    ELSE IF s = <<"6">> THEN "save_branches"
    ELSE IF s = <<"7">> THEN "load_not_allowed_branches"
    ELSE IF s = <<"8">> THEN "delete_branches"
    ELSE "break"

Dispatch_unstripped(p) == MenuChain(p)

\* preference.strip() == "<n>"
Dispatch(p) == MenuChain(strip(p))

MainExcept_resume == "prompt"

\* where control goes when an exception leaves a handler: out of the loop
MainExcept == "crashed"

DeleteExcept_abort(n) == [pc |-> "crashed", i |-> n]
DeleteExcept_retry(n) == [pc |-> "deleting", i |-> n]

\* where the deletion loop goes after a failed request at position n
DeleteExcept(n) == [pc |-> "deleting", i |-> n + 1]

\* ----------------------------------------------------------------- state
Init ==
    /\ pc = "start"
    /\ PROJECT_KEY = None
    /\ REPOSITORY_SLUG = None
    /\ FILENAME = None
    /\ fs = (KeepFile :> File(KeepData)) @@ (DirName :> Dir)
               @@ (UndecodableFile :> Undecodable)
    /\ remote \in Listings
    /\ today = FirstDay
    /\ preference = None
    /\ invoked = <<>>
    /\ error = None
    /\ not_allowed_branches = <<>>
    /\ branches = <<>>
    /\ i = 0
    /\ requests = <<>>
    /\ prior = None

Globals == <<PROJECT_KEY, REPOSITORY_SLUG, FILENAME>>
Locals == <<not_allowed_branches, branches, i, requests, prior>>

ResetLocals ==
    /\ not_allowed_branches' = <<>>
    /\ branches' = <<>>
    /\ i' = 0
    /\ requests' = <<>>
    /\ prior' = None

\* the menu reads line p and selects handler h
Read(p, h) ==
    /\ pc = "prompt"
    /\ Dispatch(p) = h
    /\ preference' = Some(p)

Raise(call) ==
    /\ pc' = MainExcept
    /\ error' = Some(call)

\* configure_bitbucket_api: the configuration file may be missing or malformed
Configure ==
    /\ pc = "start"
    /\ \E ok \in BOOLEAN :
        IF ok THEN pc' = "prompt" /\ error' = None
        ELSE Raise("configure_bitbucket_api")
    /\ UNCHANGED <<Globals, fs, remote, today, preference, invoked, Locals>>

SetFilename ==
    \E p \in MenuInputs :
        /\ Read(p, "set_not_allowed_branches_file")
        /\ invoked' = <<"set_not_allowed_branches_file">>
        /\ \/ \E v \in FilenameInputs :
                  /\ FILENAME' = Some(strip(v))
                  /\ pc' = "prompt" /\ error' = None
           \/ \* the handler's input() meets the end of standard input
              /\ FILENAME' = FILENAME
              /\ Raise("input")
        /\ ResetLocals
        /\ UNCHANGED <<PROJECT_KEY, REPOSITORY_SLUG, fs, remote, today>>

SetProjectKey ==
    \E p \in MenuInputs :
        /\ Read(p, "set_project_key")
        /\ invoked' = <<"set_project_key">>
        /\ \/ \E v \in ProjectInputs :
                  /\ PROJECT_KEY' = Some(strip(v))
                  /\ pc' = "prompt" /\ error' = None
           \/ \* the handler's input() meets the end of standard input
              /\ PROJECT_KEY' = PROJECT_KEY
              /\ Raise("input")
        /\ ResetLocals
        /\ UNCHANGED <<FILENAME, REPOSITORY_SLUG, fs, remote, today>>

SetRepositorySlug ==
    \E p \in MenuInputs :
        /\ Read(p, "set_repository_slug")
        /\ invoked' = <<"set_repository_slug">>
        /\ \/ \E v \in SlugInputs :
                  /\ REPOSITORY_SLUG' = Some(strip(v))
                  /\ pc' = "prompt" /\ error' = None
           \/ \* the handler's input() meets the end of standard input
              /\ REPOSITORY_SLUG' = REPOSITORY_SLUG
              /\ Raise("input")
        /\ ResetLocals
        /\ UNCHANGED <<FILENAME, PROJECT_KEY, fs, remote, today>>

GetProjectDetails ==
    \E p \in MenuInputs, fault \in BOOLEAN :
        /\ Read(p, "get_project_details")
        /\ invoked' = <<"get_project_details">>
        /\ IF project(PROJECT_KEY, fault).raised
           THEN Raise("project")
           ELSE pc' = "prompt" /\ error' = None
        /\ ResetLocals
        /\ UNCHANGED <<Globals, fs, remote, today>>

GetRepositoryDetails ==
    \E p \in MenuInputs, fault \in BOOLEAN :
        /\ Read(p, "get_repository_details")
        /\ invoked' = <<"get_repository_details">>
        /\ IF get_repo(PROJECT_KEY, REPOSITORY_SLUG, fault).raised
           THEN Raise("get_repo")
           ELSE pc' = "prompt" /\ error' = None
        /\ ResetLocals
        /\ UNCHANGED <<Globals, fs, remote, today>>

GetBranches ==
    \E p \in MenuInputs, fault \in BOOLEAN :
        LET res == get_branches(remote, PROJECT_KEY, REPOSITORY_SLUG, fault) IN
        /\ Read(p, "get_branches")
        /\ invoked' = <<"get_branches">>
        /\ IF res.raised
           THEN Raise("get_branches")
           ELSE pc' = "prompt" /\ error' = None
        /\ branches' = res.list
        /\ not_allowed_branches' = <<>> /\ i' = 0 /\ requests' = <<>>
        /\ prior' = None
        /\ UNCHANGED <<Globals, fs, remote, today>>

SaveBranches ==
    \E p \in MenuInputs, fault \in BOOLEAN, wfault \in BOOLEAN :
        LET name == snapshot_filename(REPOSITORY_SLUG, today)
            res == get_branches(remote, PROJECT_KEY, REPOSITORY_SLUG, fault)
        IN
        /\ Read(p, "save_branches")
        /\ invoked' = <<"save_branches">>
        /\ IF wfault
           THEN /\ Raise("open")
                /\ fs' = fs
                /\ branches' = <<>>
           ELSE /\ fs' = save_branches(fs, name, res)
                /\ branches' = res.list
                /\ IF res.raised
                   THEN Raise("get_branches")
                   ELSE pc' = "prompt" /\ error' = None
        /\ prior' = IF name \in DOMAIN fs THEN Some(fs[name].data) ELSE None
        /\ not_allowed_branches' = <<>> /\ i' = 0 /\ requests' = <<>>
        /\ UNCHANGED <<Globals, remote, today>>

\* option 7: print(load_not_allowed_branches())
ShowNotAllowed ==
    \E p \in MenuInputs :
        LET r == load_not_allowed_branches(fs, FILENAME) IN
        /\ Read(p, "load_not_allowed_branches")
        /\ invoked' = <<"load_not_allowed_branches">>
        /\ IF r.raised
           THEN Raise("load_not_allowed_branches")
           ELSE pc' = "prompt" /\ error' = None
        /\ not_allowed_branches' = r.lines
        /\ branches' = <<>> /\ i' = 0 /\ requests' = <<>> /\ prior' = None
        /\ UNCHANGED <<Globals, fs, remote, today>>

\* delete_branches up to the first iteration of its loop
DeleteBegin ==
    \E p \in MenuInputs, fault \in BOOLEAN :
        LET r == load_not_allowed_branches(fs, FILENAME)
            res == get_branches(remote, PROJECT_KEY, REPOSITORY_SLUG, fault)
        IN
        /\ Read(p, "delete_branches")
        /\ invoked' = <<"delete_branches">>
        /\ requests' = <<>> /\ prior' = None
        /\ IF r.raised
           THEN /\ Raise("load_not_allowed_branches")
                /\ not_allowed_branches' = <<>> /\ branches' = <<>> /\ i' = 0
           ELSE /\ not_allowed_branches' = r.lines
                /\ branches' = res.list
                /\ IF res.raised
                   THEN Raise("get_branches") /\ i' = 0
                   ELSE /\ i' = 1
                        /\ pc' = IF res.list = <<>> THEN "prompt" ELSE "deleting"
                        /\ error' = None
        /\ UNCHANGED <<Globals, fs, remote, today>>

\* one iteration of the loop of delete_branches
DeleteStep ==
    /\ pc = "deleting"
    /\ i \in DOMAIN branches
    /\ LET branch == branches[i]
           Leave(nxt) ==
               /\ i' = nxt.i
               /\ pc' = IF nxt.pc = "deleting" /\ nxt.i > Len(branches)
                        THEN "prompt" ELSE nxt.pc
               /\ error' = IF nxt.pc = "crashed" THEN Some("delete_branch") ELSE None
       IN
       IF ~ShouldDelete(branch, not_allowed_branches)
       THEN /\ Leave([pc |-> "deleting", i |-> i + 1])
            /\ UNCHANGED <<requests, remote>>
       ELSE \E ok \in BOOLEAN :
            /\ requests' = Append(requests, [name |-> branch.displayId, ok |-> ok])
            /\ remote' = IF ok THEN delete_branch(remote, branch.displayId) ELSE remote
            /\ Leave(IF ok THEN [pc |-> "deleting", i |-> i + 1] ELSE DeleteExcept(i))
    /\ UNCHANGED <<Globals, fs, today, preference, invoked, not_allowed_branches,
                   branches, prior>>

\* the else branch of the menu: break
Exit ==
    \E p \in MenuInputs :
        /\ Read(p, "break")
        /\ invoked' = <<>>
        /\ pc' = "exited" /\ error' = None
        /\ ResetLocals
        /\ UNCHANGED <<Globals, fs, remote, today>>

\* the menu's input() meets the end of standard input: EOFError
MenuEOF ==
    /\ pc = "prompt"
    /\ preference' = None
    /\ invoked' = <<>>
    /\ Raise("input")
    /\ ResetLocals
    /\ UNCHANGED <<Globals, fs, remote, today>>

\* midnight passes while the menu waits for input
Tick ==
    /\ pc = "prompt"
    /\ today.day < LastDay
    /\ today' = [today EXCEPT !.day = @ + 1]
    /\ UNCHANGED <<pc, Globals, fs, remote, preference, invoked, error, Locals>>

Next ==
    \/ Configure
    \/ SetFilename
    \/ SetProjectKey
    \/ SetRepositorySlug
    \/ GetProjectDetails
    \/ GetRepositoryDetails
    \/ GetBranches
    \/ SaveBranches
    \/ ShowNotAllowed
    \/ DeleteBegin
    \/ DeleteStep
    \/ Exit
    \/ MenuEOF
    \/ Tick

Spec == Init /\ [][Next]_vars
\* ---------------------------------------------------------------- claims
Delete == <<"delete_branches">>
Save == <<"save_branches">>
Show == <<"load_not_allowed_branches">>

Names(seq) == [k \in DOMAIN seq |-> seq[k].name]
DisplayIds(seq) == [k \in DOMAIN seq |-> seq[k].displayId]

\* how many records of branches the deletion loop has gone through
Done == IF pc = "deleting" THEN i - 1 ELSE Len(branches)

Requested(n) == \E k \in DOMAIN requests : requests[k].name = n

\* a step in which the menu reads a line and dispatches it
ReadStep == pc = "prompt" /\ today' = today /\ preference' # None

Line == preference[1]

SnapshotToday == snapshot_filename(REPOSITORY_SLUG, today)

\* C1: no delete request of a delete_branches run names a branch that is a
\* trimmed line of the protected file, nor a branch the listing flags default.
C1_NeverProtectedNorDefault ==
    \A k \in DOMAIN requests :
        /\ ~InSeq(requests[k].name, load_not_allowed_branches(fs, FILENAME).lines)
        /\ FILENAME = Some(KeepFile) => requests[k].name \notin {<<"m">>, <<"a">>}
        /\ \A j \in DOMAIN branches :
               branches[j].displayId = requests[k].name => ~branches[j].isDefault

C1_Witness ==
    /\ pc = "prompt" /\ invoked = Delete
    /\ FILENAME = Some(KeepFile)
    /\ requests # <<>>
    /\ \E j \in DOMAIN branches :
           branches[j].displayId = <<"m">> /\ ~branches[j].isDefault

\* C2: when a delete request fails, the run goes on: every deletable record the
\* loop has passed has a request, and the failure does not end the menu loop.
C2_FailureDoesNotAbort ==
    (\E k \in DOMAIN requests : ~requests[k].ok) =>
        /\ pc \in {"deleting", "prompt"}
        /\ error = None
        /\ \A j \in 1..Done :
               (/\ ~InSeq(branches[j].displayId, not_allowed_branches)
                /\ ~branches[j].isDefault) => Requested(branches[j].displayId)

C2_Witness ==
    /\ pc = "prompt" /\ invoked = Delete
    /\ Len(requests) = 2
    /\ ~requests[1].ok

\* C3 as stated: "8" invokes delete_branches once and the loop prompts again;
\* a line outside "0".."8" ends the loop with nothing invoked, for good.
C3_Original ==
    [][/\ (ReadStep /\ strip(preference'[1]) = <<"8">>) =>
              invoked' = Delete /\ pc' \in {"deleting", "prompt"}
       /\ (ReadStep /\ MenuChain(strip(preference'[1])) = "break") =>
              invoked' = <<>> /\ pc' = "exited"
       /\ pc = "exited" => UNCHANGED vars]_vars

\* C3 amended: "8" (trimmed) invokes delete_branches once; the loop prompts
\* again after the run unless the listing call raised, which ends the loop. A
\* line outside "0".."8" ends the loop with nothing invoked, for good.
C3_MenuDispatch ==
    [][/\ (ReadStep /\ strip(preference'[1]) = <<"8">>) =>
              /\ invoked' = Delete
              /\ pc' \in {"deleting", "prompt", "crashed"}
              /\ pc' = "crashed" => error' = Some("get_branches")
       /\ pc = "deleting" =>
              pc' \in {"deleting", "prompt"} /\ invoked' = Delete
       /\ (ReadStep /\ strip(preference'[1])
               \notin {<<"0">>, <<"1">>, <<"2">>, <<"3">>, <<"4">>, <<"5">>,
                       <<"6">>, <<"7">>, <<"8">>}) =>
              invoked' = <<>> /\ pc' = "exited"
       /\ pc = "exited" => UNCHANGED vars]_vars

C3_Witness ==
    /\ pc = "prompt" /\ invoked = Delete
    /\ preference = Some(<<" ", "8", " ">>)
    /\ requests # <<>>

\* C4: with a protected file that is missing or unreadable, the reader returns
\* the empty list without raising, the loop goes on, and a delete_branches run
\* protects nothing.
C4_MissingFileIsEmptyList ==
    (/\ FILENAME # None
     /\ open_r(fs, FILENAME).exc
            \in {"FileNotFoundError", "IsADirectoryError", "UnicodeDecodeError"}
     /\ invoked \in {Show, Delete}) =>
        /\ not_allowed_branches = <<>>
        /\ error # Some("load_not_allowed_branches")
        /\ invoked = Show => pc = "prompt"
        /\ pc = "crashed" => error = Some("get_branches")
        /\ \A j \in 1..Done :
               ~branches[j].isDefault => Requested(branches[j].displayId)

C4_Witness ==
    /\ FILENAME = Some(MissingFile)
    /\ pc = "prompt" /\ invoked = Delete
    /\ Requested(<<"m">>)

\* C5: an exception that leaves a handler ends the menu loop: control is in
\* the outer handler and nothing happens afterwards.
C5_OtherErrorsAreFatal ==
    [][/\ (error' # None /\ error' # error) => pc' = "crashed"
       /\ (/\ ReadStep
           /\ MenuChain(strip(preference'[1]))
                  \in {"get_branches", "delete_branches", "get_project_details",
                       "get_repository_details"}
           /\ PROJECT_KEY # Some(KnownProject)) => pc' = "crashed"
       /\ pc = "crashed" => UNCHANGED vars]_vars

C5_Witness ==
    /\ pc = "crashed"
    /\ invoked = Delete
    /\ error = Some("get_branches")
    /\ PROJECT_KEY = Some(<<>>)

\* C6: when save_branches completes, the file branches-S-D.txt holds exactly
\* the listed display names in order, one per line, whatever it held before.
C6_SnapshotIsExactlyTheListing ==
    [][(ReadStep /\ invoked' = Save /\ pc' = "prompt") =>
          /\ SnapshotToday \in DOMAIN fs'
          /\ SnapshotToday =
                 <<"b", "r", "a", "n", "c", "h", "e", "s", "-", "r", "-",
                   "2", "0", "2", "4", "-", "0", "1", "-">>
                 \o (IF today.day = 9 THEN <<"0", "9">>
                     ELSE IF today.day = 10 THEN <<"1", "0">>
                     ELSE <<"1", "1">>)
                 \o <<".", "t", "x", "t">>
          /\ branches' = remote
          /\ FileLines(fs'[SnapshotToday].data, <<>>) =
                 [k \in DOMAIN remote |-> remote[k].displayId \o <<"\n">>]]_vars

C6_Witness ==
    /\ pc = "prompt" /\ invoked = Save
    /\ prior # None
    /\ Len(branches) = 1
    /\ SnapshotToday \in DOMAIN fs
    /\ prior[1] # fs[SnapshotToday].data
    /\ Len(prior[1]) = 4

\* C7: the delete requests of a run are the listed records that are neither
\* protected nor default, in listing order, one request each.
C7_RequestsFollowListingOrder ==
    invoked = Delete =>
        Names(requests) =
            DisplayIds(SelectSeq(SubSeq(branches, 1, Done),
                                 LAMBDA b : /\ ~InSeq(b.displayId, not_allowed_branches)
                                            /\ ~b.isDefault))

C7_Witness ==
    /\ pc = "prompt" /\ invoked = Delete
    /\ Len(branches) = 2
    /\ Len(requests) = 1
    /\ requests[1].name = branches[2].displayId
    /\ ~requests[1].ok

\* C8: a delete request is issued, and the service changes, only inside the
\* dispatch of menu option 8.
C8_DeletesOnlyUnderOption8 ==
    [][((requests' # requests /\ requests' # <<>>) \/ remote' # remote) =>
          /\ pc = "deleting"
          /\ invoked = Delete
          /\ strip(Line) = <<"8">>
          /\ preference' = preference]_vars

C8_Witness ==
    /\ pc = "deleting"
    /\ requests # <<>>
    /\ requests[1].ok
    /\ Len(remote) < Len(branches)

\* C9: option 8 with FILENAME never set: the reader's failure is recovered, the
\* protected list is empty, and every non-default listed branch is requested.
C9_UnsetFilenameProtectsNothing ==
    (FILENAME = None /\ invoked = Delete) =>
        /\ not_allowed_branches = <<>>
        /\ pc = "crashed" => error = Some("get_branches")
        /\ pc # "crashed" => pc \in {"deleting", "prompt"}
        /\ pc = "prompt" =>
               Names(requests) =
                   DisplayIds(SelectSeq(branches, LAMBDA b : ~b.isDefault))

C9_Witness ==
    /\ FILENAME = None
    /\ pc = "prompt" /\ invoked = Delete
    /\ Len(requests) = 2

\* C10: when the listing call fails inside save_branches, the snapshot file
\* of the current slug and date exists and is empty, and the menu loop ends.
C10_FailedSaveLeavesEmptyFile ==
    [][(ReadStep /\ invoked' = Save /\ error' = Some("get_branches")) =>
          /\ pc' = "crashed"
          /\ SnapshotToday \in DOMAIN fs'
          /\ fs'[SnapshotToday].data = <<>>]_vars

C10_Witness ==
    /\ pc = "crashed" /\ invoked = Save
    /\ error = Some("get_branches")
    /\ prior # None
    /\ prior[1] # <<>>
    /\ fs[SnapshotToday].data = <<>>
====
